---- MODULE Spec2Model ----
(***************************************************************************)
(* Model of Document (src/src/Document.ts, the chunking revision, lines    *)
(* 100-299): dynamic properties of a world or entity used as a key/value   *)
(* document whose values are split over the properties key_0, key_1, ...   *)
(*                                                                         *)
(* JavaScript strings are sequences of one-character strings.  JavaScript  *)
(* values are records [t, n, s]: t is the typeof tag ("null" for null,     *)
(* "throw" for a raised exception), n a number, s a string.                *)
(*                                                                         *)
(* Specifications: Spec (set/get/has/delete/keys on the world document),   *)
(* CacheSpec (Document.from and the entityRemove handler), FaultSpec       *)
(* (encoders that return no string, chunk properties that hold no string), *)
(* IterSpec (the generators keys/values/entries step by step), FrameSpec   *)
(* (two owners that also hold properties of other writers), SplitSpec (the *)
(* loop of setEncoded step by step).                                       *)
(***************************************************************************)
EXTENDS Integers, Sequences, FiniteSets, TLC

\* ------------------------------------------------------------------ bounds

\* Document.MAX_DYNAMIC_PROPERTY_SIZE is 32767 in the source; the model
\* scales it down so that values of a few characters span several chunks.
MAX_DYNAMIC_PROPERTY_SIZE == 2

\* Most dynamic properties the model lets all owners hold together.
MaxProps == 4

\* Most Document instances the model lets the process construct.
MaxDocs == 4

\* Longest encoded value and largest maximum chunk size for which the loop of
\* setEncoded is run step by step.
MaxLength == 15
MaxChunkSize == 10

\* ------------------------------------------------------------------ values

Undefined == [t |-> "undefined", n |-> 0, s |-> <<>>]
Null == [t |-> "null", n |-> 0, s |-> <<>>]
Num(n) == [t |-> "number", n |-> n, s |-> <<>>]
Str(s) == [t |-> "string", n |-> 0, s |-> s]
Bool(b) == [t |-> "boolean", n |-> IF b THEN 1 ELSE 0, s |-> <<>>]
Throw(what) == [t |-> "throw", n |-> 0, s |-> what]

SyntaxError == Throw(<<"S">>)
Error == Throw(<<"E">>)

IsNullish(v) == v.t \in {"undefined", "null"}

Digit == <<"0", "1", "2", "3", "4", "5", "6", "7", "8", "9">>
IsDigit(c) == \E i \in 1..10 : Digit[i] = c
DigitVal(c) == (CHOOSE i \in 1..10 : Digit[i] = c) - 1

\* String(n) for a non-negative integer: its decimal digits.
RECURSIVE NumberToString(_)
NumberToString(n) ==
  IF n < 10 THEN <<Digit[n + 1]>>
  ELSE NumberToString(n \div 10) \o <<Digit[(n % 10) + 1]>>

RECURSIVE DigitsValue(_)
DigitsValue(s) ==
  IF s = <<>> THEN 0
  ELSE 10 * DigitsValue(SubSeq(s, 1, Len(s) - 1)) + DigitVal(s[Len(s)])

Quote == "\""

\* JSON.stringify on the values of the model: numbers, booleans, null, strings
\* without characters that need escaping; undefined has no JSON text.
JSONstringify(v) ==
  CASE v.t = "number" -> Str(NumberToString(v.n))
    [] v.t = "null" -> Str(<<"n", "u", "l", "l">>)
    [] v.t = "boolean" -> Str(IF v.n = 1 THEN <<"t", "r", "u", "e">>
                              ELSE <<"f", "a", "l", "s", "e">>)
    [] v.t = "string" -> Str(<<Quote>> \o v.s \o <<Quote>>)
    [] OTHER -> Undefined

\* JSON.parse on the same fragment of JSON; any other text is a SyntaxError.
JSONparse(s) ==
  CASE s = <<"n", "u", "l", "l">> -> Null
    [] s = <<"t", "r", "u", "e">> -> Bool(TRUE)
    [] s = <<"f", "a", "l", "s", "e">> -> Bool(FALSE)
    [] /\ Len(s) >= 1
       /\ \A i \in 1..Len(s) : IsDigit(s[i])
       /\ (Len(s) > 1 => s[1] # "0") -> Num(DigitsValue(s))
    [] /\ Len(s) >= 2
       /\ s[1] = Quote
       /\ s[Len(s)] = Quote
       /\ \A i \in 2..(Len(s) - 1) : s[i] # Quote -> Str(SubSeq(s, 2, Len(s) - 1))
    [] OTHER -> SyntaxError

\* ------------------------------------------------------ regular expressions

RegExpSpecial ==
  {".", "*", "+", "?", "^", "$", "{", "}", "(", ")", "|", "[", "]", "\\"}

\* input.replace(/[.*+?^${}()|[\]\\]/g, "\\$&")
RECURSIVE escapeRegExp(_)
escapeRegExp(input) ==
  IF input = <<>> THEN <<>>
  ELSE (IF input[1] \in RegExpSpecial THEN <<"\\", input[1]>> ELSE <<input[1]>>)
       \o escapeRegExp(Tail(input))

\* The atoms of a pattern source: ^ and $ anchors, . (any character), \d (a
\* digit), \c (the character c), a plain character; each atom may carry +.
RECURSIVE RegExpAtoms(_)
RegExpAtoms(p) ==
  IF p = <<>> THEN <<>>
  ELSE LET esc == p[1] = "\\" /\ Len(p) >= 2
           used == IF esc THEN 2 ELSE 1
           kind == CASE esc /\ p[2] = "d" -> "digit"
                     [] esc -> "lit"
                     [] p[1] = "." -> "any"
                     [] p[1] = "^" -> "bol"
                     [] p[1] = "$" -> "eol"
                     [] OTHER -> "lit"
           plus == Len(p) > used /\ p[used + 1] = "+"
           rest == SubSeq(p, used + (IF plus THEN 2 ELSE 1), Len(p))
       IN <<[kind |-> kind, c |-> p[used], plus |-> plus]>> \o RegExpAtoms(rest)

AtomMatches(a, c) ==
  CASE a.kind = "digit" -> IsDigit(c)
    [] a.kind = "any" -> TRUE
    [] OTHER -> a.c = c

RECURSIVE RegExpMatchAt(_, _, _)
RegExpMatchAt(atoms, str, j) ==
  IF atoms = <<>> THEN TRUE
  ELSE LET a == atoms[1]
       IN CASE a.kind = "bol" -> j = 1 /\ RegExpMatchAt(Tail(atoms), str, j)
            [] a.kind = "eol" -> j = Len(str) + 1 /\ RegExpMatchAt(Tail(atoms), str, j)
            [] a.plus ->
                 \E n \in 1..(Len(str) + 1 - j) :
                   /\ \A i \in j..(j + n - 1) : AtomMatches(a, str[i])
                   /\ RegExpMatchAt(Tail(atoms), str, j + n)
            [] OTHER ->
                 /\ j <= Len(str)
                 /\ AtomMatches(a, str[j])
                 /\ RegExpMatchAt(Tail(atoms), str, j + 1)

\* new RegExp(source).test(str)
RegExpTest(source, str) ==
  \E j \in 1..(Len(str) + 1) : RegExpMatchAt(RegExpAtoms(source), str, j)

\* ------------------------------------------------------------------ inputs

World == "world"
Entities == {"e1", "e2"}
Owners == {World} \cup Entities

\* Logical keys: "a" and "ab" (one a prefix of the other) and ".", a key that
\* is a regular-expression metacharacter.
Keys == {<<"a">>, <<"a", "b">>, <<".">>}

\* The encoder/decoder pairs a caller passes: "json" passes none (the default
\* JSON codec), "id" passes the identity on strings, "opt" passes a codec that
\* writes null as the one-character text "n" and everything else as JSON.
Codecs == {"json", "id", "opt"}

HasCodec(c) == c # "json"

encoder(c, v) ==
  CASE c = "id" -> v
    [] c = "opt" -> IF v = Null THEN Str(<<"n">>) ELSE JSONstringify(v)
    [] OTHER -> Undefined

decoder(c, s) ==
  CASE c = "id" -> Str(s)
    [] c = "opt" -> IF s = <<"n">> THEN Null ELSE JSONparse(s)
    [] OTHER -> Undefined

\* The values a caller stores through each codec.
Values(c) ==
  CASE c = "json" -> {Num(7), Num(12345), Null, Undefined}
    [] c = "id" -> {Str(<<>>), Str(<<"n">>)}
    [] OTHER -> {Null}

\* Values a caller passes to set although the encoder in use gives no string
\* for them: the identity encoder returns the number, null or undefined it is
\* given, JSON.stringify returns undefined for undefined.
FaultValues(c) ==
  CASE c = "json" -> {Undefined}
    [] c = "id" -> {Num(7), Null, Undefined}
    [] OTHER -> {}

\* Raw values other than strings that the host stores in a dynamic property.
RawValues == {Num(7), Bool(TRUE)}

\* `${key}_${chunkId}`
ChunkId(key, chunkId) == key \o <<"_">> \o NumberToString(chunkId)

\* The encodedValue of set(key, value, encoder).
Encoded(c, value) ==
  LET e == IF HasCodec(c) THEN encoder(c, value) ELSE Undefined
  IN IF IsNullish(e) THEN JSONstringify(value) ELSE e

\* Dynamic properties of an owner that no Document wrote, under names that
\* are no key_<digits> of a key of the model: "x" and "a_x".
OtherPropertyIds == {<<"x">>, <<"a", "_", "x">>}

\* The property ids of the model: every key with every chunk index up to the
\* length of the longest encoded value, and the ids of the other properties.
PropertyIds ==
  LET lens == UNION {{Len(Encoded(c, v).s) : v \in Values(c)} : c \in Codecs}
      longest == CHOOSE n \in lens : \A m \in lens : m <= n
  IN {ChunkId(key, i) : key \in Keys, i \in 0..longest} \cup OtherPropertyIds

\* ------------------------------------------------------------------- state

VARIABLES
  props,               \* owner -> its dynamic properties, name -> value
  loaded,              \* the module's top-level statements: "no" (not yet
                       \* run), "yes" (run), "failed" (raised)
  worldDocument,       \* the exported world document (0: not yet assigned)
  ownerIdDocumentMap,  \* entity id -> cached Document instance (0: no entry)
  owner,               \* Document instance -> the owner it was constructed for
  removed,             \* entity ids whose entityRemove event was delivered
  res,                 \* the last call: its arguments and what it returned
  last,                \* history: owner, key -> the last successful set not
                       \* followed by a delete of the key
  given,               \* history: entity id -> the instance Document.from
                       \* returned for it since its last removal (0: none)
  it,                  \* the generator object a caller holds, if any
  loop                 \* the locals of a setEncoded call that is in its loop

vars ==
  <<props, loaded, worldDocument, ownerIdDocumentMap, owner, removed, res, last,
    given, it, loop>>

\* ------------------------------------------------- the host's property store

NoProps == [id \in {} |-> Undefined]

\* owner.setDynamicProperty(id, value): undefined removes the property.
setDynamicProperty(p, id, value) ==
  IF value = Undefined
    THEN [i \in DOMAIN p \ {id} |-> p[i]]
    ELSE [i \in DOMAIN p \cup {id} |-> IF i = id THEN value ELSE p[i]]

\* owner.getDynamicProperty(id)
getDynamicProperty(p, id) == IF id \in DOMAIN p THEN p[id] ELSE Undefined

RECURSIVE Enumerations(_)
Enumerations(S) ==
  IF S = {} THEN {<<>>}
  ELSE UNION {{<<x>> \o e : e \in Enumerations(S \ {x})} : x \in S}

EnumerationsOf ==
  [S \in {T \in SUBSET PropertyIds : Cardinality(T) <= MaxProps} |-> Enumerations(S)]

\* owner.getDynamicPropertyIds(): the host documents no order for the ids, so
\* a call may return them in any order (EnumerationsOf tabulates Enumerations
\* over the sets of property ids the model reaches).
getDynamicPropertyIds(p) == EnumerationsOf[DOMAIN p]

\* value coerced to a string by the + operator
ToStr(v) ==
  CASE v.t = "string" -> v.s
    [] v.t = "number" -> NumberToString(v.n)
    [] v.t = "boolean" -> IF v.n = 1 THEN <<"t", "r", "u", "e">>
                          ELSE <<"f", "a", "l", "s", "e">>
    [] OTHER -> <<"u", "n", "d", "e", "f", "i", "n", "e", "d">>

\* ---------------------------------------------------------------- Document

\* The pattern with any characters after the "_" instead of digits.
keyPatternAnySuffix(key) == <<"^">> \o escapeRegExp(key) \o <<"_", ".", "+", "$">>

\* new RegExp(`^${escapedKey}_\\d+$`)
keyPattern(key) == <<"^">> \o escapeRegExp(key) \o <<"_", "\\", "d", "+", "$">>

\* keyPattern.test(propId), tabulated over the keys and property ids of the
\* model.
keyPatternTest ==
  [key \in Keys |-> {propId \in PropertyIds : RegExpTest(keyPattern(key), propId)}]

\* The property-id sets the model reaches.
PropertySets == {T \in SUBSET PropertyIds : Cardinality(T) <= MaxProps}

\* getChunkIds(key): the arrays it can return, one for each order in which
\* getDynamicPropertyIds() can list the ids (tabulated over PropertySets).
chunkIdsOf ==
  [S \in PropertySets |->
    [key \in Keys |->
      LET test(propId) == propId \in keyPatternTest[key]
      IN {SelectSeq(ids, test) : ids \in EnumerationsOf[S]}]]

getChunkIds(p, key) == chunkIdsOf[DOMAIN p][key]

RECURSIVE RemoveAll(_, _)
RemoveAll(p, chunkIds) ==
  IF chunkIds = <<>> THEN p
  ELSE RemoveAll(setDynamicProperty(p, chunkIds[1], Undefined), Tail(chunkIds))

\* delete as a loop that stops after the first chunk id.
deleteFirstOnly(p, chunkIds) ==
  IF chunkIds = <<>> THEN p ELSE setDynamicProperty(p, chunkIds[1], Undefined)

\* delete(key), given the array getChunkIds(key) returned: the store it leaves.
delete(p, chunkIds) == RemoveAll(p, chunkIds)

\* The while loop of setEncoded, from chunkStart (0-based) and chunkId on.
RECURSIVE WriteChunks(_, _, _, _, _)
WriteChunks(p, key, encodedValue, chunkStart, chunkId) ==
  IF ~(chunkStart < Len(encodedValue)) THEN p
  ELSE LET a == chunkStart + MAX_DYNAMIC_PROPERTY_SIZE
           chunkEnd == IF Len(encodedValue) < a THEN Len(encodedValue) ELSE a
           chunk == SubSeq(encodedValue, chunkStart + 1, chunkEnd)
       IN WriteChunks(setDynamicProperty(p, ChunkId(key, chunkId), Str(chunk)),
                      key, encodedValue, chunkEnd, chunkId + 1)

\* One pass of the loop body that takes the chunk one character short.
setEncodedStepShort(p, l) ==
  LET a == l.chunkStart + l.max
      chunkEnd == IF Len(l.encodedValue) < a THEN Len(l.encodedValue) ELSE a
      chunk == SubSeq(l.encodedValue, l.chunkStart + 1, chunkEnd - 1)
  IN [store |-> setDynamicProperty(p, ChunkId(l.key, l.chunkId), Str(chunk)),
      loop |-> [l EXCEPT !.chunkEnd = chunkEnd, !.chunkStart = chunkEnd,
                         !.chunkId = l.chunkId + 1]]

\* One pass of the body of the while loop of setEncoded, with the locals l
\* (l.max stands for Document.MAX_DYNAMIC_PROPERTY_SIZE): the store and the
\* locals after it.
setEncodedStep(p, l) ==
  LET a == l.chunkStart + l.max
      chunkEnd == IF Len(l.encodedValue) < a THEN Len(l.encodedValue) ELSE a
      chunk == SubSeq(l.encodedValue, l.chunkStart + 1, chunkEnd)
  IN [store |-> setDynamicProperty(p, ChunkId(l.key, l.chunkId), Str(chunk)),
      loop |-> [l EXCEPT !.chunkEnd = chunkEnd, !.chunkStart = chunkEnd,
                         !.chunkId = l.chunkId + 1]]

\* setEncoded without the delete before the loop (the earlier revision).
setEncodedNoDelete(p, chunkIds, key, encodedValue) ==
  WriteChunks(p, key, encodedValue, 0, 0)

\* setEncoded that returns at once when the encoded value is empty.
setEncodedSkipEmpty(p, chunkIds, key, encodedValue) ==
  IF encodedValue = <<>> THEN p
  ELSE WriteChunks(delete(p, chunkIds), key, encodedValue, 0, 0)

\* setEncoded(key, encodedValue): the store it leaves.
setEncoded(p, chunkIds, key, encodedValue) ==
  WriteChunks(delete(p, chunkIds), key, encodedValue, 0, 0)

RECURSIVE Reduce(_, _, _)
Reduce(p, chunkIds, data) ==
  IF chunkIds = <<>> THEN data
  ELSE Reduce(p, Tail(chunkIds), data \o ToStr(getDynamicProperty(p, chunkIds[1])))

\* getEncoded(key), given the array getChunkIds(key) returned.
getEncoded(p, chunkIds) ==
  IF Len(chunkIds) = 0 THEN Undefined ELSE Str(Reduce(p, chunkIds, <<>>))

\* get(key, decoder): the value returned, or the exception raised.
get(p, chunkIds, c) ==
  LET encodedValue == getEncoded(p, chunkIds)
      decoded == IF HasCodec(c) THEN decoder(c, encodedValue.s) ELSE Undefined
  IN IF encodedValue = Undefined THEN Undefined
     ELSE IF encodedValue.t = "string"
       THEN (IF decoded.t = "throw" THEN decoded
             ELSE IF IsNullish(decoded) THEN JSONparse(encodedValue.s)
             ELSE decoded)
     ELSE Error

\* set(key, value, encoder): the store it leaves and what it raised, if anything.
set(p, chunkIds, key, value, c) ==
  LET encodedValue == Encoded(c, value)
  IN IF encodedValue.t # "string"
       THEN [store |-> p, ret |-> Error]
       ELSE [store |-> setEncoded(p, chunkIds, key, encodedValue.s), ret |-> Undefined]

\* has as an existence check of the chunk properties.
hasByExistence(p, chunkIds) == Len(chunkIds) > 0

\* has(key)
has(p, chunkIds) ==
  LET value == get(p, chunkIds, "json")
  IN IF value.t = "throw" THEN FALSE ELSE value # Undefined

\* id.lastIndexOf("_"), 0-based; -1 when there is none.
lastIndexOf_(id) ==
  IF \E i \in 1..Len(id) : id[i] = "_"
    THEN (CHOOSE i \in 1..Len(id) :
            id[i] = "_" /\ \A j \in (i + 1)..Len(id) : id[j] # "_") - 1
    ELSE -1

\* keys() without the keys.has(key) test.
RECURSIVE keysFromNoSeen(_, _)
keysFromNoSeen(ids, seen) ==
  IF ids = <<>> THEN <<>>
  ELSE LET i == lastIndexOf_(ids[1])
       IN IF i = -1 THEN keysFromNoSeen(Tail(ids), seen)
          ELSE <<SubSeq(ids[1], 1, i)>> \o keysFromNoSeen(Tail(ids), seen)

\* keys(), drained: the keys it yields, in order; `seen` is the Set keys.
RECURSIVE keysFrom(_, _)
keysFrom(ids, seen) ==
  IF ids = <<>> THEN <<>>
  ELSE LET id == ids[1]
           idSeperatorIdx == lastIndexOf_(id)
           key == SubSeq(id, 1, idSeperatorIdx)
       IN IF idSeperatorIdx = -1 THEN keysFrom(Tail(ids), seen)
          ELSE IF key \in seen THEN keysFrom(Tail(ids), seen)
          ELSE <<key>> \o keysFrom(Tail(ids), seen \cup {key})

keys(ids) == keysFrom(ids, {})

\* keys() as a generator that reads getDynamicPropertyIds() again on every
\* step instead of once.
RECURSIVE keysNextRereading(_, _, _, _)
keysNextRereading(started, ids, seen, fresh) ==
  IF fresh = <<>>
    THEN [done |-> TRUE, key |-> <<>>, ids |-> <<>>, seen |-> seen]
    ELSE LET idSeperatorIdx == lastIndexOf_(fresh[1])
             key == SubSeq(fresh[1], 1, idSeperatorIdx)
         IN IF idSeperatorIdx = -1 \/ key \in seen
              THEN keysNextRereading(started, ids, seen, Tail(fresh))
              ELSE [done |-> FALSE, key |-> key, ids |-> Tail(fresh),
                    seen |-> seen \cup {key}]

\* One next() of the generator keys(): `started` tells whether the body has
\* run before, `ids` is what is left of the array the for-of walks, `seen` is
\* the Set keys, `fresh` is what getDynamicPropertyIds() returns if called now.
\* The body runs to its next yield (done FALSE, the key yielded) or to its end.
RECURSIVE keysNext(_, _, _, _)
keysNext(started, ids, seen, fresh) ==
  IF ~started THEN keysNext(TRUE, fresh, seen, fresh)
  ELSE IF ids = <<>>
    THEN [done |-> TRUE, key |-> <<>>, ids |-> <<>>, seen |-> seen]
    ELSE LET id == ids[1]
             idSeperatorIdx == lastIndexOf_(id)
             key == SubSeq(id, 1, idSeperatorIdx)
         IN IF idSeperatorIdx = -1 \/ key \in seen
              THEN keysNext(TRUE, Tail(ids), seen, fresh)
              ELSE [done |-> FALSE, key |-> key, ids |-> Tail(ids),
                    seen |-> seen \cup {key}]

\* values() and entries() that take the values when the iteration starts.
yieldedEager(kind, key, p, chunkIds, p0) ==
  IF kind = "keys" THEN Undefined
  ELSE LET test(propId) == propId \in DOMAIN p0
       IN get(p0, SelectSeq(chunkIds, test), "json")

\* What the generator of the given kind yields with key, or the exception that
\* ends it: keys() the key alone, values() this.get(key), entries() the pair
\* [key, this.get(key)]; p is the store at this step, p0 the store as it was
\* when the iteration started.
yielded(kind, key, p, chunkIds, p0) ==
  IF kind = "keys" THEN Undefined ELSE get(p, chunkIds, "json")

\* ------------------------------------------------------- Document instances

\* Document.from that constructs a Document for an entity on every call.
fromNoCacheLookup(o, wd, map, own) ==
  IF o = World
    THEN (IF wd = 0
            THEN [doc |-> Len(own) + 1, owner |-> Append(own, o), map |-> map]
            ELSE [doc |-> wd, owner |-> own, map |-> map])
    ELSE [doc |-> Len(own) + 1, owner |-> Append(own, o),
          map |-> [map EXCEPT ![o] = Len(own) + 1]]

\* Document.from that constructs a Document for the world on every call.
fromNewWorldDocument(o, wd, map, own) ==
  IF o = World
    THEN [doc |-> Len(own) + 1, owner |-> Append(own, o), map |-> map]
    ELSE (IF map[o] = 0
            THEN [doc |-> Len(own) + 1, owner |-> Append(own, o),
                  map |-> [map EXCEPT ![o] = Len(own) + 1]]
            ELSE [doc |-> map[o], owner |-> own, map |-> map])

\* Document.from(owner), given the cache and the instances constructed so far:
\* the instance returned (instances are numbered in construction order), the
\* owner of every instance and the cache afterwards.
from(o, wd, map, own) ==
  IF o = World
    THEN (IF wd = 0
            THEN [doc |-> Len(own) + 1, owner |-> Append(own, o), map |-> map]
            ELSE [doc |-> wd, owner |-> own, map |-> map])
    ELSE (IF map[o] = 0
            THEN [doc |-> Len(own) + 1, owner |-> Append(own, o),
                  map |-> [map EXCEPT ![o] = Len(own) + 1]]
            ELSE [doc |-> map[o], owner |-> own, map |-> map])

\* (ev) => ownerIdDocumentMap.delete(ev.removedEntityId)
entityRemove(map, removedEntityId) == [map EXCEPT ![removedEntityId] = 0]

\* ----------------------------------------------------------------- actions

\* res: op, the method called; owner, key, codec, val, its receiver and
\* arguments; had, how many chunk properties key had before the call; ids, the
\* array getChunkIds returned to it; ret, keys, doc, what it returned.
NoCall ==
  [op |-> "none", owner |-> World, key |-> <<>>, codec |-> "json",
   val |-> Undefined, had |-> 0, ids |-> <<>>, ret |-> Undefined,
   keys |-> <<>>, doc |-> 0]

\* last[owner][key]: <<codec, value>> of that set, <<>> when there is none.
\* it: kind, the method that made the generator ("none": no generator); owner,
\* its document's owner; started, ids, seen, the position of keys(); done, the
\* generator has returned or raised; out (history), the keys it has yielded or
\* yielded the value of so far; store (history), the owner's properties as
\* they were when the iteration started.
NoIterator ==
  [kind |-> "none", owner |-> World, started |-> FALSE, ids |-> <<>>,
   seen |-> {}, done |-> FALSE, out |-> <<>>, store |-> <<>>]

\* loop: pc, where the setEncoded call is ("none": no call, "while": at the
\* loop test, "done": returned); key, encodedValue, its arguments; max, the
\* maximum chunk size; chunkStart, chunkEnd, chunkId, its locals.
NoLoop ==
  [pc |-> "none", key |-> <<>>, encodedValue |-> <<>>, max |-> 0,
   chunkStart |-> 0, chunkEnd |-> 0, chunkId |-> 0]

NotSet == <<>>
WasSet(c, value) == <<c, value>>

Call(op, o) == [NoCall EXCEPT !.op = op, !.owner = o]

PropCount(ps) ==
  LET RECURSIVE Sum(_)
      Sum(S) == IF S = {} THEN 0
                ELSE LET o == CHOOSE x \in S : TRUE
                     IN Cardinality(DOMAIN ps[o]) + Sum(S \ {o})
  IN Sum(Owners)

Init ==
  /\ props = [o \in Owners |-> NoProps]
  /\ loaded = "no"
  /\ worldDocument = 0
  /\ ownerIdDocumentMap = [e \in Entities |-> 0]
  /\ owner = <<>>
  /\ removed = {}
  /\ res = NoCall
  /\ last = [o \in Owners |-> [key \in Keys |-> NotSet]]
  /\ given = [e \in Entities |-> 0]
  /\ it = NoIterator
  /\ loop = NoLoop

\* The module's top-level statements: export const worldDocument =
\* Document.from(world), then the entityRemove subscription.  Document.from
\* reads worldDocument while its initializer runs: in a build that compiles
\* the const to a var it reads undefined and constructs the world document.
Load ==
  /\ loaded = "no"
  /\ LET r == from(World, worldDocument, ownerIdDocumentMap, owner)
     IN /\ worldDocument' = r.doc
        /\ owner' = r.owner
        /\ ownerIdDocumentMap' = r.map
  /\ loaded' = "yes"
  /\ UNCHANGED <<props, removed, res, last, given, it, loop>>

\* The same statements in a build that keeps the const: the read of
\* worldDocument before its initialization raises a ReferenceError, the module
\* fails to load and exports nothing.
LoadThrows ==
  /\ loaded = "no"
  /\ loaded' = "failed"
  /\ UNCHANGED <<props, worldDocument, ownerIdDocumentMap, owner, removed, res,
                 last, given, it, loop>>

From(o) ==
  /\ loaded = "yes"
  /\ LET r == from(o, worldDocument, ownerIdDocumentMap, owner)
     IN /\ Len(r.owner) <= MaxDocs
        /\ owner' = r.owner
        /\ ownerIdDocumentMap' = r.map
        /\ res' = [Call("from", o) EXCEPT !.doc = r.doc]
        /\ given' = IF o \in Entities THEN [given EXCEPT ![o] = r.doc] ELSE given
  /\ UNCHANGED <<props, loaded, worldDocument, removed, last, it, loop>>

\* The host delivers the entityRemove event of an entity, once per entity.
EntityRemove(e) ==
  /\ loaded = "yes"
  /\ e \notin removed
  /\ removed' = removed \cup {e}
  /\ ownerIdDocumentMap' = entityRemove(ownerIdDocumentMap, e)
  /\ res' = Call("entityRemove", e)
  /\ given' = [given EXCEPT ![e] = 0]
  /\ UNCHANGED <<props, loaded, worldDocument, owner, last, it, loop>>

Cache == <<loaded, worldDocument, ownerIdDocumentMap, owner, removed, given>>

\* A Document of the owner has been constructed: the receiver of the calls
\* below (the constructor is protected, Document.from is the only way to one).
HasDocument(o) == \E d \in 1..Len(owner) : owner[d] = o

Set(o, key, c, value) ==
  /\ loaded = "yes"
  /\ HasDocument(o)
  /\ \E chunkIds \in getChunkIds(props[o], key) :
       LET r == set(props[o], chunkIds, key, value, c)
       IN /\ props' = [props EXCEPT ![o] = r.store]
          /\ PropCount(props') <= MaxProps
          /\ res' = [Call("set", o) EXCEPT !.key = key, !.codec = c,
                       !.val = value, !.had = Len(chunkIds), !.ret = r.ret]
          /\ last' = IF r.ret = Undefined
                       THEN [last EXCEPT ![o][key] = WasSet(c, value)]
                       ELSE last
  /\ UNCHANGED <<Cache, it, loop>>

Get(o, key, c) ==
  /\ loaded = "yes"
  /\ HasDocument(o)
  /\ \E chunkIds \in getChunkIds(props[o], key) :
       res' = [Call("get", o) EXCEPT !.key = key, !.codec = c,
                 !.ids = chunkIds, !.ret = get(props[o], chunkIds, c)]
  /\ UNCHANGED <<props, last, Cache, it, loop>>

Has(o, key) ==
  /\ loaded = "yes"
  /\ HasDocument(o)
  /\ \E chunkIds \in getChunkIds(props[o], key) :
       res' = [Call("has", o) EXCEPT !.key = key, !.ids = chunkIds,
                 !.ret = Bool(has(props[o], chunkIds))]
  /\ UNCHANGED <<props, last, Cache, it, loop>>

Delete(o, key) ==
  /\ loaded = "yes"
  /\ HasDocument(o)
  /\ \E chunkIds \in getChunkIds(props[o], key) :
       /\ props' = [props EXCEPT ![o] = delete(props[o], chunkIds)]
       /\ res' = [Call("delete", o) EXCEPT !.key = key, !.had = Len(chunkIds)]
       /\ last' = [last EXCEPT ![o][key] = NotSet]
  /\ UNCHANGED <<Cache, it, loop>>

\* Another writer of the owner's dynamic properties (the host stores booleans
\* and numbers as well as strings) leaves a raw value in a chunk property.
RawWrite(o, id, value) ==
  /\ loaded = "yes"
  /\ props' = [props EXCEPT ![o] = setDynamicProperty(props[o], id, value)]
  /\ PropCount(props') <= MaxProps
  /\ res' = [Call("rawWrite", o) EXCEPT !.key = id, !.val = value]
  /\ UNCHANGED <<last, Cache, it, loop>>

\* A keys() iteration run to its end.
KeysCall(o) ==
  /\ loaded = "yes"
  /\ HasDocument(o)
  /\ \E ids \in getDynamicPropertyIds(props[o]) :
       res' = [Call("keys", o) EXCEPT !.keys = keys(ids)]
  /\ UNCHANGED <<props, last, Cache, it, loop>>

\* doc.keys(), doc.values() or doc.entries(): the call makes the generator
\* object and runs nothing of its body.
Iterate(o, kind) ==
  /\ loaded = "yes"
  /\ HasDocument(o)
  /\ it' = [NoIterator EXCEPT !.kind = kind, !.owner = o]
  /\ res' = [Call("iterate", o) EXCEPT !.codec = kind]
  /\ UNCHANGED <<props, last, Cache, loop>>

\* next() on the generator the caller holds: the body runs to its next yield,
\* to its end, or to the exception this.get(key) raises.
IterNext ==
  /\ loaded = "yes"
  /\ it.kind # "none"
  /\ ~it.done
  /\ \E fresh \in getDynamicPropertyIds(props[it.owner]) :
       LET k == keysNext(it.started, it.ids, it.seen, fresh)
           now == [it EXCEPT !.started = TRUE, !.ids = k.ids, !.seen = k.seen,
                     !.store = IF it.started THEN it.store ELSE props[it.owner]]
       IN IF k.done
            THEN /\ it' = [now EXCEPT !.done = TRUE]
                 /\ res' = Call("next", it.owner)
            ELSE \E chunkIds \in getChunkIds(props[it.owner], k.key) :
                   LET value == yielded(it.kind, k.key, props[it.owner], chunkIds,
                                        now.store)
                   IN /\ it' = IF value.t = "throw"
                                  THEN [now EXCEPT !.done = TRUE]
                                  ELSE [now EXCEPT !.out = Append(it.out, k.key)]
                      /\ res' = [Call("next", it.owner) EXCEPT !.key = k.key,
                                   !.ids = chunkIds, !.ret = value]
  /\ UNCHANGED <<props, last, Cache, loop>>

\* The owners whose documents the callers of Spec use.
StoreOwners == {World}

Next ==
  \/ Load
  \/ LoadThrows
  \/ \E o \in StoreOwners, key \in Keys, c \in Codecs : \E value \in Values(c) :
       Set(o, key, c, value)
  \/ \E o \in StoreOwners, key \in Keys, c \in Codecs : Get(o, key, c)
  \/ \E o \in StoreOwners, key \in Keys : Has(o, key)
  \/ \E o \in StoreOwners, key \in Keys : Delete(o, key)
  \/ \E o \in StoreOwners : KeysCall(o)

Spec == Init /\ [][Next]_vars

NextCache ==
  \/ Load
  \/ LoadThrows
  \/ \E o \in Owners : From(o)
  \/ \E e \in Entities : EntityRemove(e)

CacheSpec == Init /\ [][NextCache]_vars

\* The keys and codecs of FaultSpec: callers whose encoder gives no string,
\* and chunk properties that hold raw values other than strings.
FaultKeys == {<<"a">>}
FaultCodecs == {"json", "id"}

NextFault ==
  \/ Load
  \/ LoadThrows
  \/ \E key \in FaultKeys, c \in FaultCodecs :
       \E value \in Values(c) \cup FaultValues(c) : Set(World, key, c, value)
  \/ \E key \in FaultKeys, i \in 0..1, value \in RawValues :
       RawWrite(World, ChunkId(key, i), value)
  \/ \E key \in FaultKeys, c \in FaultCodecs : Get(World, key, c)
  \/ \E key \in FaultKeys : Has(World, key)

FaultSpec == Init /\ [][NextFault]_vars

\* The keys, codecs and generator kinds of IterSpec: a caller that sets and
\* deletes keys between the steps of an iteration.
IterKeys == {<<"a">>, <<"a", "b">>}
IterValues == {Num(7), Null}
IterKinds == {"keys", "values", "entries"}

NextIter ==
  \/ Load
  \/ LoadThrows
  \/ \E key \in IterKeys, value \in IterValues : Set(World, key, "json", value)
  \/ \E key \in IterKeys : Delete(World, key)
  \/ \E kind \in IterKinds : Iterate(World, kind)
  \/ IterNext

IterSpec == Init /\ [][NextIter]_vars

\* The encoded values SplitSpec splits: the prefixes of a text whose characters
\* all differ, so that a chunk shows where in the value it was taken from.
SplitText ==
  <<"0", "1", "2", "3", "4", "5", "6", "7", "8", "9", "A", "B", "C", "D", "E",
    "F", "G", "H", "I", "J">>
SplitValues == {SubSeq(SplitText, 1, n) : n \in 0..MaxLength}
SplitKey == <<"k">>

\* setEncoded(key, encodedValue) on a loaded module, for a key without chunk
\* properties, at the first test of its loop.
InitSplit ==
  /\ props = [o \in Owners |-> NoProps]
  /\ loaded = "yes"
  /\ worldDocument = 1
  /\ ownerIdDocumentMap = [e \in Entities |-> 0]
  /\ owner = <<World>>
  /\ removed = {}
  /\ res = NoCall
  /\ last = [o \in Owners |-> [key \in Keys |-> NotSet]]
  /\ given = [e \in Entities |-> 0]
  /\ it = NoIterator
  /\ \E encodedValue \in SplitValues, max \in 1..MaxChunkSize :
       loop = [NoLoop EXCEPT !.pc = "while", !.key = SplitKey,
                 !.encodedValue = encodedValue, !.max = max]

\* The loop test holds: one pass of the body.
SplitStep ==
  /\ loop.pc = "while"
  /\ loop.chunkStart < Len(loop.encodedValue)
  /\ LET r == setEncodedStep(props[World], loop)
     IN /\ props' = [props EXCEPT ![World] = r.store]
        /\ loop' = r.loop
  /\ UNCHANGED <<res, last, Cache, it>>

\* The loop test fails: setEncoded returns.
SplitReturn ==
  /\ loop.pc = "while"
  /\ ~(loop.chunkStart < Len(loop.encodedValue))
  /\ loop' = [loop EXCEPT !.pc = "done"]
  /\ UNCHANGED <<props, res, last, Cache, it>>

NextSplit ==
  \/ SplitStep
  \/ SplitReturn

\* A call that has started runs on: nothing in setEncoded waits.
SplitSpec == InitSplit /\ [][NextSplit]_vars /\ WF_vars(NextSplit)

\* The owners, keys and values of FrameSpec: a world and an entity that both
\* hold properties of other writers, and the documents of both in use.
FrameOwners == {World, "e1"}
FrameKeys == {<<"a">>}
FrameValues == {Num(7)}
FrameKinds == {"values", "entries"}

NextFrame ==
  \/ Load
  \/ LoadThrows
  \/ \E o \in FrameOwners : From(o)
  \/ \E o \in FrameOwners, id \in OtherPropertyIds : RawWrite(o, id, Str(<<"x">>))
  \/ \E o \in FrameOwners, key \in FrameKeys, value \in FrameValues :
       Set(o, key, "json", value)
  \/ \E o \in FrameOwners, key \in FrameKeys : Delete(o, key)
  \/ \E o \in FrameOwners, key \in FrameKeys : Get(o, key, "json")
  \/ \E o \in FrameOwners, key \in FrameKeys : Has(o, key)
  \/ KeysCall(World)
  \/ \E kind \in FrameKinds : Iterate(World, kind)
  \/ IterNext

FrameSpec == Init /\ [][NextFrame]_vars

\* ------------------------------------------------------------------ claims

\* propId is key, "_" and one or more decimal digits.
IsChunkPropertyOf(propId, key) ==
  /\ Len(propId) >= Len(key) + 2
  /\ SubSeq(propId, 1, Len(key)) = key
  /\ propId[Len(key) + 1] = "_"
  /\ \A i \in (Len(key) + 2)..Len(propId) : IsDigit(propId[i])

ChunkPropertiesOf(p, key) == {propId \in DOMAIN p : IsChunkPropertyOf(propId, key)}

\* ceil(len / MAX_DYNAMIC_PROPERTY_SIZE)
ChunkCount(len) == (len + MAX_DYNAMIC_PROPERTY_SIZE - 1) \div MAX_DYNAMIC_PROPERTY_SIZE

\* key_0, key_1, ..., key_{n-1}
AscendingChunkIds(key, n) == [i \in 1..n |-> ChunkId(key, i - 1)]

SetSucceeded == res.op = "set" /\ res.ret = Undefined

Range(seq) == {seq[i] : i \in 1..Len(seq)}

\* C1 (as claimed, for the encodings of one character and more): right after
\* a successful set(key, v), with the default JSON codec or a caller's
\* encoder/decoder pair, get(key) with the same codec returns v, whichever
\* array getChunkIds hands it.
RoundTrip ==
  (SetSucceeded /\ Encoded(res.codec, res.val).s # <<>>) =>
    \A chunkIds \in getChunkIds(props[res.owner], res.key) :
      get(props[res.owner], chunkIds, res.codec) = res.val

\* C1 (as claimed, for the empty encoding): the same for a value whose encoding
\* is the empty string.
RoundTripEmpty ==
  (SetSucceeded /\ Encoded(res.codec, res.val).s = <<>>) =>
    \A chunkIds \in getChunkIds(props[res.owner], res.key) :
      get(props[res.owner], chunkIds, res.codec) = res.val

\* C1, what the code keeps: the round trip holds when the encoding is not
\* empty, the chunks are read in ascending index order and the caller's
\* decoder does not return null.
RoundTripInOrder ==
  (/\ SetSucceeded
   /\ Encoded(res.codec, res.val).s # <<>>
   /\ ~(HasCodec(res.codec) /\ IsNullish(res.val))) =>
    LET n == ChunkCount(Len(Encoded(res.codec, res.val).s))
    IN get(props[res.owner], AscendingChunkIds(res.key, n), res.codec) = res.val

\* C2: right after a successful set(key, v) the chunk properties of key are
\* exactly key_0 .. key_{N-1}, N = ceil(len(encode(v)) / maxChunkSize), also
\* when the key held more chunks before the call.
ChunksAfterSet ==
  SetSucceeded =>
    LET n == ChunkCount(Len(Encoded(res.codec, res.val).s))
    IN ChunkPropertiesOf(props[res.owner], res.key)
         = {ChunkId(res.key, i) : i \in 0..(n - 1)}

\* C2 witness: a successful set that left fewer chunks than the key had.
ShrinkingSet ==
  /\ SetSucceeded
  /\ res.had > Cardinality(ChunkPropertiesOf(props[res.owner], res.key))
  /\ ChunkPropertiesOf(props[res.owner], res.key) # {}

\* C3: after delete(key) no chunk property of key is left and get(key) returns
\* undefined; a delete(key) that finds no chunk property of key leaves the
\* store as it was.
DeleteIsComplete ==
  [][res'.op = "delete" =>
       /\ ChunkPropertiesOf(props'[res'.owner], res'.key) = {}
       /\ \A chunkIds \in getChunkIds(props'[res'.owner], res'.key), c \in Codecs :
            get(props'[res'.owner], chunkIds, c) = Undefined
       /\ (ChunkPropertiesOf(props[res'.owner], res'.key) = {} => props' = props)]_vars

\* C3 witness: a delete of a key that had several chunks, others remaining.
DeletedChunks ==
  /\ res.op = "delete"
  /\ res.had > 1
  /\ DOMAIN props[res.owner] # {}

\* The chunk properties of key in p, with their values.
ChunksOf(p, key) == [propId \in ChunkPropertiesOf(p, key) |-> p[propId]]

\* C4, first half: set and delete on one key leave the chunk properties of
\* every other key as they were.
KeyIsolationStore ==
  [][res'.op \in {"set", "delete"} =>
       \A k2 \in Keys \ {res'.key} :
         ChunksOf(props'[res'.owner], k2) = ChunksOf(props[res'.owner], k2)]_vars

\* C4 (as claimed): set and delete on one key leave the chunk properties of
\* every other key as they were, and with two keys written get returns for
\* each the value last set under it (a value whose encoding is not empty).
KeyIsolation ==
  [][/\ res'.op \in {"set", "delete"} =>
          \A k2 \in Keys \ {res'.key} :
            ChunksOf(props'[res'.owner], k2) = ChunksOf(props[res'.owner], k2)
     /\ (/\ res'.op = "get"
         /\ last'[res'.owner][res'.key] # NotSet
         /\ last'[res'.owner][res'.key][1] = res'.codec
         /\ Encoded(res'.codec, last'[res'.owner][res'.key][2]).s # <<>>
         /\ \E k2 \in Keys \ {res'.key} :
              ChunkPropertiesOf(props'[res'.owner], k2) # {}) =>
          res'.ret = last'[res'.owner][res'.key][2]]_vars

\* C5 (as claimed): get(key) returns what the chunks of key give when joined in
\* ascending index order, whatever array getChunkIds handed it.
AscendingOrderJoin ==
  res.op = "get" =>
    LET n == Cardinality(ChunkPropertiesOf(props[res.owner], res.key))
    IN res.ret = get(props[res.owner], AscendingChunkIds(res.key, n), res.codec)

\* C9: has(key) raises nothing and returns true exactly when the get(key) it
\* performs (default decoder, the array getChunkIds handed it) returns a value
\* other than undefined without raising.
HasIffGetDefined ==
  res.op = "has" =>
    LET g == get(props[res.owner], res.ids, "json")
    IN /\ res.ret \in {Bool(TRUE), Bool(FALSE)}
       /\ res.ret = Bool(TRUE) <=> (g.t # "throw" /\ g # Undefined)

\* C9 witness: has returned false for a key whose chunks are there but do not
\* decode.
HasFalseOnCorrupt ==
  /\ res.op = "has"
  /\ res.ret = Bool(FALSE)
  /\ ChunkPropertiesOf(props[res.owner], res.key) # {}

\* C10: a keys() iteration yields no key twice, and yields exactly the keys
\* that have at least one chunk property.
KeysAreDistinctAndExact ==
  res.op = "keys" =>
    /\ \A i, j \in 1..Len(res.keys) : res.keys[i] = res.keys[j] => i = j
    /\ Range(res.keys) \subseteq Keys
    /\ \A key \in Keys :
         key \in Range(res.keys) <=> ChunkPropertiesOf(props[res.owner], key) # {}

\* C10 witness: keys() yielded two keys, one of them stored in several chunks,
\* while a third key has no chunk.
KeysOverChunkedKey ==
  /\ res.op = "keys"
  /\ Len(res.keys) = 2
  /\ \E key \in Range(res.keys) :
       Cardinality(ChunkPropertiesOf(props[res.owner], key)) > 1

\* C6: an entity id has at most one cached Document, constructed for that id;
\* Document.from returns for an entity id the instance it returned before when
\* no entityRemove event for the id came in between, and otherwise (the first
\* call, or the first after the removal) an instance constructed by this call.
CacheIdentity ==
  [][/\ \A e \in Entities :
          ownerIdDocumentMap'[e] # 0 =>
            /\ owner'[ownerIdDocumentMap'[e]] = e
            /\ ownerIdDocumentMap'[e] = given'[e]
     /\ (res'.op = "from" /\ res'.owner \in Entities) =>
          /\ given[res'.owner] # 0 => res'.doc = given[res'.owner]
          /\ given[res'.owner] = 0 =>
               /\ res'.doc \notin 1..Len(owner)
               /\ res'.doc \in 1..Len(owner')]_vars

\* C6 witness: Document.from returned a new instance for an entity id whose
\* earlier instance was evicted by its entityRemove event.
NewInstanceAfterRemoval ==
  /\ res.op = "from"
  /\ res.owner \in removed
  /\ res.doc = Len(owner)
  /\ \E d \in 1..(Len(owner) - 1) : owner[d] = res.owner

\* C7 (as claimed): in every reachable state the cache holds entries only for
\* entity ids whose entityRemove event has not been delivered.
LeakFreeCache ==
  \A e \in Entities : ownerIdDocumentMap[e] # 0 => e \notin removed

\* C7, what the code keeps: the entityRemove handler deletes the entry of the
\* removed id.
EvictedOnRemoval ==
  [][res'.op = "entityRemove" => ownerIdDocumentMap'[res'.owner] = 0]_vars

\* C8: once the module is loaded there is one Document constructed for the
\* world, worldDocument is that instance and never changes, and
\* Document.from(world) returns it without constructing anything.
WorldDocumentIsSingle ==
  [][/\ loaded' = "yes" =>
          /\ worldDocument' \in 1..Len(owner')
          /\ {d \in 1..Len(owner') : owner'[d] = World} = {worldDocument'}
     /\ loaded = "yes" => worldDocument' = worldDocument
     /\ (res'.op = "from" /\ res'.owner = World) =>
          /\ res'.doc = worldDocument
          /\ owner' = owner]_vars

\* C8 witness: Document.from(world) returned the world document after an
\* entity was cached and removed.
WorldDocumentAfterRemoval ==
  /\ res.op = "from"
  /\ res.owner = World
  /\ res.doc = worldDocument
  /\ removed # {}
  /\ Len(owner) > 1

\* What the encoder in use returns for value: the caller's encoder, or
\* JSON.stringify when the caller passes none.
EncoderOutput(c, value) ==
  IF HasCodec(c) THEN encoder(c, value) ELSE JSONstringify(value)

\* C11 (as claimed): a set whose encoder in use returns something other than a
\* string raises, and leaves the whole property store as it was before the
\* call.
EncodeErrorBeforeMutation ==
  [][(res'.op = "set" /\ EncoderOutput(res'.codec, res'.val).t # "string") =>
       /\ res'.ret = Error
       /\ props' = props]_vars

\* C11, what the code keeps: set raises exactly when neither the caller's
\* encoder nor the JSON.stringify it falls back to gives a string, and a set
\* that raises leaves the whole property store as it was.
EncodeErrorIsAtomic ==
  [][res'.op = "set" =>
       /\ res'.ret = Error <=> Encoded(res'.codec, res'.val).t # "string"
       /\ res'.ret = Error => props' = props]_vars

\* C11: a set that raised while the key had chunk properties.
EncodeErrorOverChunks ==
  /\ res.op = "set"
  /\ res.ret = Error
  /\ res.had > 0

\* C12 (as claimed): a get that read a chunk property holding a raw value
\* other than a string raises.
NonStringChunkFails ==
  (res.op = "get" /\ \E i \in 1..Len(res.ids) :
                       props[res.owner][res.ids[i]].t # "string") =>
    res.ret.t = "throw"

\* C12, what the code does: the raw values are coerced to strings by the +
\* of the join, and get returns what the decoder makes of the joined text.
NonStringChunkIsCoerced ==
  (res.op = "get" /\ res.ids # <<>>) =>
    res.ret = get([id \in DOMAIN props[res.owner] |->
                     Str(ToStr(props[res.owner][id]))], res.ids, res.codec)

\* The values get(key) can return on the store p, one for each array
\* getChunkIds can hand it.
GetResults(p, key) == {get(p, chunkIds, "json") : chunkIds \in getChunkIds(p, key)}

\* The keys that have a chunk property in p.
KeysIn(p) == {key \in Keys : ChunkPropertiesOf(p, key) # {}}

\* C13: a step of values() or entries() that reaches a key returns (or raises)
\* what get(key) gives on the store as it is at that step; and the first step
\* of every generator works on the store as it is at that step: it yields a key
\* that has a chunk property then, or ends at once when there is none.
LazyElements ==
  [][res'.op = "next" =>
       /\ (res'.key # <<>> /\ it.kind \in {"values", "entries"}) =>
            res'.ret \in GetResults(props[it.owner], res'.key)
       /\ ~it.started =>
            /\ it'.store = props[it.owner]
            /\ res'.key # <<>> => res'.key \in KeysIn(props[it.owner])
            /\ res'.key = <<>> => KeysIn(props[it.owner]) = {}]_vars

\* C13 witness: values() or entries(), after an element produced earlier,
\* produced a value that the key did not have when the iteration started.
ReflectsLaterSet ==
  /\ res.op = "next"
  /\ it.kind \in {"values", "entries"}
  /\ Len(it.out) >= 2
  /\ res.key = it.out[Len(it.out)]
  /\ res.ret # Undefined
  /\ res.ret \notin GetResults(it.store, res.key)

\* C19: a generator yields no key twice and only keys that had a chunk
\* property when its first step read the property ids; when it runs to its
\* end it has yielded every such key, those deleted since included, and
\* values()/entries() produce undefined for a key that has no chunk left.
IdsReadOnce ==
  [][res'.op = "next" =>
       /\ \A i, j \in 1..Len(it'.out) : it'.out[i] = it'.out[j] => i = j
       /\ Range(it'.out) \subseteq KeysIn(it'.store)
       /\ (it'.done /\ res'.key = <<>>) => Range(it'.out) = KeysIn(it'.store)
       /\ (/\ res'.key # <<>>
           /\ it.kind \in {"values", "entries"}
           /\ res'.key \notin KeysIn(props[it.owner])) => res'.ret = Undefined]_vars

\* C19 witness: entries() reached a key all of whose chunks were deleted after
\* the iteration started and paired it with undefined, while a key set after
\* the start has not been yielded.
YieldedDeletedKey ==
  /\ res.op = "next"
  /\ it.kind = "entries"
  /\ Len(it.out) >= 2
  /\ res.key = it.out[Len(it.out)]
  /\ res.key \notin KeysIn(props[it.owner])
  /\ res.ret = Undefined

\* C19, second case: a generator ran to its end without yielding a key that was
\* first set after the iteration started.
NotYieldedLaterKey ==
  /\ res.op = "next"
  /\ res.key = <<>>
  /\ it.done
  /\ it.out # <<>>
  /\ \E key \in KeysIn(props[it.owner]) : key \notin Range(it.out)

\* C14 (as claimed): get(key) returns undefined when no set of key, or a delete
\* of key after it, is the last successful operation on key, and otherwise the
\* value of the most recent successful set of key (a value whose encoding is
\* not empty, read with the codec it was written with).
MapRefinement ==
  res.op = "get" =>
    LET l == last[res.owner][res.key]
    IN /\ l = NotSet => res.ret = Undefined
       /\ (/\ l # NotSet
           /\ l[1] = res.codec
           /\ Encoded(l[1], l[2]).s # <<>>) => res.ret = l[2]

\* C14, what the code keeps: in every state the chunks of every key, joined in
\* ascending index order, decode to the value of the most recent successful
\* set of the key (non-empty encoding, decoder result not null), and a key
\* with no such set has no chunk.
MapRefinementInOrder ==
  \A o \in Owners, key \in Keys :
    LET l == last[o][key]
        n == Cardinality(ChunkPropertiesOf(props[o], key))
    IN /\ l = NotSet => n = 0
       /\ (/\ l # NotSet
           /\ Encoded(l[1], l[2]).s # <<>>
           /\ ~(HasCodec(l[1]) /\ IsNullish(l[2]))) =>
            get(props[o], AscendingChunkIds(key, n), l[1]) = l[2]

\* What the loop of setEncoded holds at every test, with N chunks written:
\* the properties are key_0 .. key_{N-1}; chunk i is the substring of the
\* encoded value from i * max up to (i + 1) * max or its end, not empty and not
\* longer than max; every chunk but the last is max long; the chunks joined in
\* index order give the encoded value up to chunkStart, and all of it, in
\* ceil(length / max) chunks, when setEncoded has returned.
SplitInvariant ==
  LET p == props[World]
      s == loop.encodedValue
      n == loop.max
      N == loop.chunkId
      min(a, b) == IF a < b THEN a ELSE b
      joined == Reduce(p, AscendingChunkIds(loop.key, N), <<>>)
  IN /\ DOMAIN p = {ChunkId(loop.key, i) : i \in 0..(N - 1)}
     /\ \A i \in 0..(N - 1) :
          LET chunk == p[ChunkId(loop.key, i)]
          IN /\ chunk = Str(SubSeq(s, i * n + 1, min((i + 1) * n, Len(s))))
             /\ Len(chunk.s) >= 1
             /\ Len(chunk.s) <= n
             /\ i < N - 1 => Len(chunk.s) = n
     /\ joined = SubSeq(s, 1, loop.chunkStart)
     /\ loop.pc = "done" =>
          /\ joined = s
          /\ N = (Len(s) + n - 1) \div n

\* C15: for every encoded value and every maximum chunk size from 1 up the
\* loop of setEncoded keeps SplitInvariant, and it ends.
ChunkSplitting == []SplitInvariant /\ <>(loop.pc = "done")

\* C15 witness: 15 characters with maximum chunk size 10 end as k_0 of 10
\* characters and k_1 of 5.
SplitInTwo ==
  /\ loop.pc = "done"
  /\ loop.max = 10
  /\ props[World] =
       [id \in {ChunkId(SplitKey, 0), ChunkId(SplitKey, 1)} |->
          IF id = ChunkId(SplitKey, 0) THEN Str(SubSeq(SplitText, 1, 10))
          ELSE Str(SubSeq(SplitText, 11, 15))]

\* The loop run step by step with the maximum chunk size of the model leaves
\* the store that WriteChunks computes.
SplitIsWriteChunks ==
  (loop.pc = "done" /\ loop.max = MAX_DYNAMIC_PROPERTY_SIZE) =>
    props[World] = WriteChunks(NoProps, loop.key, loop.encodedValue, 0, 0)

\* C16 (as claimed): a get with a caller's decoder that finds chunks returns
\* (or raises) exactly what the decoder gives for the joined text, and a
\* successful set with a caller's encoder stores exactly the text the encoder
\* returned.
DecoderResultIsReturned ==
  /\ (res.op = "get" /\ HasCodec(res.codec) /\ res.ids # <<>>) =>
       res.ret = decoder(res.codec, getEncoded(props[res.owner], res.ids).s)
  /\ (SetSucceeded /\ HasCodec(res.codec)) =>
       LET n == Cardinality(ChunkPropertiesOf(props[res.owner], res.key))
       IN Str(Reduce(props[res.owner], AscendingChunkIds(res.key, n), <<>>))
            = encoder(res.codec, res.val)

\* C16, what the code keeps: get returns the decoder's result unless it is
\* null or undefined, and then what JSON.parse gives for the joined text.
DecoderResultUnlessNullish ==
  (res.op = "get" /\ HasCodec(res.codec) /\ res.ids # <<>>) =>
    LET joined == getEncoded(props[res.owner], res.ids).s
        decoded == decoder(res.codec, joined)
    IN res.ret = IF IsNullish(decoded) THEN JSONparse(joined) ELSE decoded

\* C17: a successful set(key, v) whose encoded value is the empty string leaves
\* the store that delete(key) leaves: no chunk property of key; afterwards
\* get(key) returns undefined with every decoder, has(key) is false and keys()
\* does not yield key.
EmptyEncodingIsDelete ==
  [][(/\ res'.op = "set"
      /\ res'.ret = Undefined
      /\ Encoded(res'.codec, res'.val).s = <<>>) =>
       LET before == props[res'.owner]
           after == props'[res'.owner]
       IN /\ ChunkPropertiesOf(after, res'.key) = {}
          /\ \A chunkIds \in getChunkIds(before, res'.key) :
               after = delete(before, chunkIds)
          /\ \A chunkIds \in getChunkIds(after, res'.key) :
               /\ \A c \in Codecs : get(after, chunkIds, c) = Undefined
               /\ ~has(after, chunkIds)
          /\ \A ids \in getDynamicPropertyIds(after) :
               res'.key \notin Range(keys(ids))]_vars

\* C17 witness: a set with an empty encoded value on a key that had chunks,
\* with chunks of another key in the store.
EmptySetOverChunks ==
  /\ SetSucceeded
  /\ Encoded(res.codec, res.val).s = <<>>
  /\ res.had > 0
  /\ DOMAIN props[res.owner] # {}

\* C18: get, has, keys, values and entries (the call and every step) leave the
\* properties of every owner and the owner cache as they were; set(key, .) and
\* delete(key) change, add or remove only properties of their document's owner
\* whose name is key, "_" and digits.
Frame ==
  [][/\ res'.op \in {"get", "has", "keys", "iterate", "next"} =>
          /\ props' = props
          /\ Cache' = Cache
     /\ res'.op \in {"set", "delete"} =>
          \A o \in Owners, id \in PropertyIds :
            getDynamicProperty(props'[o], id) # getDynamicProperty(props[o], id) =>
              /\ o = res'.owner
              /\ IsChunkPropertyOf(id, res'.key)]_vars

\* C18 witness: a delete removed the chunks of a key from an owner that holds
\* the property a_x of another writer, while another owner has chunks of the
\* same key and the cache holds a Document.
FramedDelete ==
  /\ res.op = "delete"
  /\ res.had > 0
  /\ <<"a", "_", "x">> \in DOMAIN props[res.owner]
  /\ \E o \in Owners \ {res.owner} : ChunkPropertiesOf(props[o], res.key) # {}
  /\ \E e \in Entities : ownerIdDocumentMap[e] # 0

====
